---- MODULE Spec2Model ----
(***************************************************************************)
(* Model of parser/packet_codec.go: the three packet codecs (binary,       *)
(* string, base64) with their decode / encode / writeTo operations, the    *)
(* digit table, the io.Writer sink they write to and the padded standard   *)
(* base64 text encoding they call.  Bytes are the integers 0..255.         *)
(***************************************************************************)
EXTENDS Integers, Sequences, FiniteSets, TLC

(* ---------------------------------------------------------------------- *)
(* Bounds of the model                                                     *)
(* ---------------------------------------------------------------------- *)
MaxData == 3
MaxBody == 4
MaxWrites == 3
MaxShort == 1

(* ---------------------------------------------------------------------- *)
(* Packet model (packet type enumeration, flag, constructor)               *)
(* ---------------------------------------------------------------------- *)
OPEN == 0
CLOSE == 1
PING == 2
PONG == 3
MESSAGE == 4
UPGRADE == 5
NOOP == 6
BINARY == 1

ValidTypes == {OPEN, CLOSE, PING, PONG, MESSAGE, UPGRADE, NOOP}

\* A *Packet.  DataNil distinguishes a nil Data slice from an empty one.
NewPacketCustom(t, d, f) == [Type |-> t, Data |-> d, DataNil |-> FALSE, Flag |-> f]

\* The nil *Packet returned next to an error.
NilPacket == [Type |-> -1, Data |-> <<>>, DataNil |-> TRUE, Flag |-> -1]

(* ---------------------------------------------------------------------- *)
(* Errors: nil or one of the error kinds                                   *)
(* ---------------------------------------------------------------------- *)
ErrNil == "nil"
ErrEmptyInput == "EmptyInput"
ErrInvalidPacketType == "InvalidPacketType"
ErrInvalidFraming == "InvalidFraming"
ErrInvalidPayloadEncoding == "InvalidPayloadEncoding"
ErrSinkWriteFailure == "SinkWriteFailure"

(* ---------------------------------------------------------------------- *)
(* Bytes                                                                   *)
(* ---------------------------------------------------------------------- *)
ChB == 98
Ch0 == 48
ChPad == 61
ChLF == 10
ChCR == 13
ByteMod == 256

Tail2(s) == SubSeq(s, 3, Len(s))

(* ---------------------------------------------------------------------- *)
(* Digit table                                                             *)
(* ---------------------------------------------------------------------- *)
convertCharToType(c) ==
    CASE c = Ch0     -> [t |-> OPEN, err |-> ErrNil]
      [] c = Ch0 + 1 -> [t |-> CLOSE, err |-> ErrNil]
      [] c = Ch0 + 2 -> [t |-> PING, err |-> ErrNil]
      [] c = Ch0 + 3 -> [t |-> PONG, err |-> ErrNil]
      [] c = Ch0 + 4 -> [t |-> MESSAGE, err |-> ErrNil]
      [] c = Ch0 + 5 -> [t |-> UPGRADE, err |-> ErrNil]
      [] c = Ch0 + 6 -> [t |-> NOOP, err |-> ErrNil]
      [] OTHER       -> [t |-> 255, err |-> ErrInvalidPacketType]

convertTypeToChar(ptype) ==
    CASE ptype = OPEN    -> [c |-> Ch0, err |-> ErrNil]
      [] ptype = CLOSE   -> [c |-> Ch0 + 1, err |-> ErrNil]
      [] ptype = PING    -> [c |-> Ch0 + 2, err |-> ErrNil]
      [] ptype = PONG    -> [c |-> Ch0 + 3, err |-> ErrNil]
      [] ptype = MESSAGE -> [c |-> Ch0 + 4, err |-> ErrNil]
      [] ptype = UPGRADE -> [c |-> Ch0 + 5, err |-> ErrNil]
      [] ptype = NOOP    -> [c |-> Ch0 + 6, err |-> ErrNil]
      [] OTHER           -> [c |-> 0, err |-> ErrInvalidPacketType]

(* ---------------------------------------------------------------------- *)
(* base64.StdEncoding: padded standard alphabet, not strict, CR and LF     *)
(* skipped on decode                                                       *)
(* ---------------------------------------------------------------------- *)
\* 6-bit value -> alphabet character
StdEncodeChar(i) ==
    IF i < 26 THEN 65 + i
    ELSE IF i < 52 THEN 97 + (i - 26)
    ELSE IF i < 62 THEN 48 + (i - 52)
    ELSE IF i = 62 THEN 43
    ELSE 47

\* alphabet character -> 6-bit value, 255 for every other byte
StdDecodeChar(c) ==
    IF c >= 65 /\ c <= 90 THEN c - 65
    ELSE IF c >= 97 /\ c <= 122 THEN c - 97 + 26
    ELSE IF c >= 48 /\ c <= 57 THEN c - 48 + 52
    ELSE IF c = 43 THEN 62
    ELSE IF c = 47 THEN 63
    ELSE 255

RECURSIVE StdEncodeToString(_)
StdEncodeToString(d) ==
    IF Len(d) = 0 THEN <<>>
    ELSE IF Len(d) = 1 THEN
        << StdEncodeChar(d[1] \div 4), StdEncodeChar((d[1] % 4) * 16), ChPad, ChPad >>
    ELSE IF Len(d) = 2 THEN
        << StdEncodeChar(d[1] \div 4),
           StdEncodeChar((d[1] % 4) * 16 + d[2] \div 16),
           StdEncodeChar((d[2] % 16) * 4), ChPad >>
    ELSE
        << StdEncodeChar(d[1] \div 4),
           StdEncodeChar((d[1] % 4) * 16 + d[2] \div 16),
           StdEncodeChar((d[2] % 16) * 4 + d[3] \div 64),
           StdEncodeChar(d[3] % 64) >> \o StdEncodeToString(SubSeq(d, 4, Len(d)))

RECURSIVE SkipNewlines(_)
SkipNewlines(s) ==
    IF Len(s) = 0 THEN <<>>
    ELSE IF s[1] = ChLF \/ s[1] = ChCR THEN SkipNewlines(Tail(s))
    ELSE <<s[1]>> \o SkipNewlines(Tail(s))

\* The quanta of a text whose newlines are already skipped.
RECURSIVE DecodeQuanta(_)
DecodeQuanta(s) ==
    IF Len(s) = 0 THEN [data |-> <<>>, err |-> ErrNil]
    ELSE IF Len(s) < 4 THEN [data |-> <<>>, err |-> ErrInvalidPayloadEncoding]
    ELSE
      LET a == StdDecodeChar(s[1])
          b == StdDecodeChar(s[2])
          c == StdDecodeChar(s[3])
          d == StdDecodeChar(s[4])
          bad == [data |-> <<>>, err |-> ErrInvalidPayloadEncoding]
      IN  IF a = 255 \/ b = 255 THEN bad
          ELSE IF c = 255 THEN
              IF s[3] = ChPad /\ s[4] = ChPad /\ Len(s) = 4
              THEN [data |-> << a * 4 + b \div 16 >>, err |-> ErrNil]
              ELSE bad
          ELSE IF d = 255 THEN
              IF s[4] = ChPad /\ Len(s) = 4
              THEN [data |-> << a * 4 + b \div 16, (b % 16) * 16 + c \div 4 >>,
                    err |-> ErrNil]
              ELSE bad
          ELSE
              LET rest == DecodeQuanta(SubSeq(s, 5, Len(s)))
              IN  IF rest.err # ErrNil THEN bad
                  ELSE [data |-> << a * 4 + b \div 16, (b % 16) * 16 + c \div 4,
                                    (c % 4) * 64 + d >> \o rest.data,
                        err |-> ErrNil]

StdDecodeString(s) == DecodeQuanta(SkipNewlines(s))

(* ---------------------------------------------------------------------- *)
(* The io.Writer a writeTo call writes to.  calls is the Write calls it    *)
(* received, bytes what it accepted, fails the calls that return an error  *)
(* and short how many bytes a failing call accepts before it fails.        *)
(* ---------------------------------------------------------------------- *)
Min(a, b) == IF a < b THEN a ELSE b

Write(w, b) ==
    IF (Len(w.calls) + 1) \in w.fails
    THEN [w |-> [w EXCEPT !.calls = Append(@, b),
                          !.bytes = @ \o SubSeq(b, 1, Min(w.short, Len(b)))],
          err |-> ErrSinkWriteFailure]
    ELSE [w |-> [w EXCEPT !.calls = Append(@, b), !.bytes = @ \o b], err |-> ErrNil]

\* new(bytes.Buffer): a sink whose Write never fails
NewBuffer == [fails |-> {}, short |-> 0, calls |-> <<>>, bytes |-> <<>>]

NilBytes == [err |-> ErrNil, out |-> <<>>, outNil |-> TRUE]

(* ---------------------------------------------------------------------- *)
(* Binary codec                                                            *)
(* ---------------------------------------------------------------------- *)
\* binCodec.decode keeping the type byte in Data (data instead of data[1:])
binCodec_decode_KeepsTypeByte(data) ==
    IF Len(data) < 1 THEN [pkt |-> NilPacket, err |-> ErrEmptyInput]
    ELSE LET t == data[1]
         IN  IF t \in ValidTypes
             THEN [pkt |-> NewPacketCustom(t, data, BINARY), err |-> ErrNil]
             ELSE [pkt |-> NilPacket, err |-> ErrInvalidPacketType]

\* binCodec.decode reading the type through the digit table
binCodec_decode_UsesDigitTable(data) ==
    IF Len(data) < 1 THEN [pkt |-> NilPacket, err |-> ErrEmptyInput]
    ELSE LET r == convertCharToType(data[1])
         IN  IF r.err # ErrNil THEN [pkt |-> NilPacket, err |-> r.err]
             ELSE [pkt |-> NewPacketCustom(r.t, Tail(data), BINARY), err |-> ErrNil]

binCodec_decode(data) ==
    IF Len(data) < 1 THEN [pkt |-> NilPacket, err |-> ErrEmptyInput]
    ELSE LET t == data[1]
         IN  IF t \in ValidTypes
             THEN [pkt |-> NewPacketCustom(t, Tail(data), BINARY), err |-> ErrNil]
             ELSE [pkt |-> NilPacket, err |-> ErrInvalidPacketType]

binCodec_writeTo(writer, packet) ==
    LET r1 == Write(writer, << packet.Type % ByteMod >>)
    IN  IF r1.err # ErrNil THEN r1
        ELSE IF packet.DataNil \/ Len(packet.Data) < 1 THEN [w |-> r1.w, err |-> ErrNil]
        ELSE Write(r1.w, packet.Data)

binCodec_encode(packet) ==
    LET r == binCodec_writeTo(NewBuffer, packet)
    IN  IF r.err # ErrNil THEN [NilBytes EXCEPT !.err = r.err]
        ELSE [err |-> ErrNil, out |-> r.w.bytes, outNil |-> FALSE]

(* ---------------------------------------------------------------------- *)
(* String codec                                                            *)
(* ---------------------------------------------------------------------- *)
\* strCodec.decode dropping the error of the digit lookup
strCodec_decode_IgnoresLookupError(data) ==
    IF Len(data) < 1 THEN [pkt |-> NilPacket, err |-> ErrEmptyInput]
    ELSE LET r == convertCharToType(data[1])
         IN  [pkt |-> NewPacketCustom(r.t, Tail(data), 0), err |-> ErrNil]

strCodec_decode(data) ==
    IF Len(data) < 1 THEN [pkt |-> NilPacket, err |-> ErrEmptyInput]
    ELSE LET r == convertCharToType(data[1])
         IN  IF r.err # ErrNil THEN [pkt |-> NilPacket, err |-> r.err]
             ELSE [pkt |-> NewPacketCustom(r.t, Tail(data), 0), err |-> ErrNil]

\* strCodec.writeTo dropping the error of its first Write
strCodec_writeTo_ContinuesAfterFailure(writer, packet) ==
    LET t == convertTypeToChar(packet.Type)
    IN  IF t.err # ErrNil THEN [w |-> writer, err |-> t.err]
        ELSE LET r1 == Write(writer, << t.c >>)
             IN  Write(r1.w, packet.Data)

\* strCodec.writeTo skipping the payload Write when Data is empty
strCodec_writeTo_SkipsEmptyData(writer, packet) ==
    LET t == convertTypeToChar(packet.Type)
    IN  IF t.err # ErrNil THEN [w |-> writer, err |-> t.err]
        ELSE LET r1 == Write(writer, << t.c >>)
             IN  IF r1.err # ErrNil THEN r1
                 ELSE IF packet.DataNil \/ Len(packet.Data) < 1
                 THEN [w |-> r1.w, err |-> ErrNil]
                 ELSE Write(r1.w, packet.Data)

strCodec_writeTo(writer, packet) ==
    LET t == convertTypeToChar(packet.Type)
    IN  IF t.err # ErrNil THEN [w |-> writer, err |-> t.err]
        ELSE LET r1 == Write(writer, << t.c >>)
             IN  IF r1.err # ErrNil THEN r1
                 ELSE Write(r1.w, packet.Data)

strCodec_encode(packet) ==
    LET r == strCodec_writeTo(NewBuffer, packet)
    IN  IF r.err # ErrNil THEN [NilBytes EXCEPT !.err = r.err]
        ELSE [err |-> ErrNil, out |-> r.w.bytes, outNil |-> FALSE]

(* ---------------------------------------------------------------------- *)
(* Base64 codec                                                            *)
(* ---------------------------------------------------------------------- *)
\* b64Codec.decode with its checks in the order limit, framing/type, body;
\* the variants below change one of them.
b64Codec_decode_Variant(data, shortLimit, shortFlag, typeFirst) ==
    LET l == Len(data)
    IN  IF l < 1 THEN [pkt |-> NilPacket, err |-> ErrEmptyInput]
        ELSE IF l < shortLimit THEN
            LET r == convertCharToType(data[1])
            IN  IF r.err # ErrNil THEN [pkt |-> NilPacket, err |-> r.err]
                ELSE [pkt |-> NewPacketCustom(r.t, <<>>, shortFlag), err |-> ErrNil]
        ELSE
            LET r == convertCharToType(data[2])
                body == StdDecodeString(Tail2(data))
            IN  IF typeFirst /\ r.err # ErrNil THEN [pkt |-> NilPacket, err |-> r.err]
                ELSE IF data[1] # ChB THEN [pkt |-> NilPacket, err |-> ErrInvalidFraming]
                ELSE IF r.err # ErrNil THEN [pkt |-> NilPacket, err |-> r.err]
                ELSE IF body.err # ErrNil THEN [pkt |-> NilPacket, err |-> body.err]
                ELSE [pkt |-> NewPacketCustom(r.t, body.data, BINARY), err |-> ErrNil]

\* the digit is checked before the 'b' marker
b64Codec_decode_TypeBeforeFraming(data) == b64Codec_decode_Variant(data, 2, BINARY, TRUE)

\* the short form leaves the Flag at its zero value
b64Codec_decode_ShortFormNoFlag(data) == b64Codec_decode_Variant(data, 2, 0, FALSE)

\* the short form is taken for l <= 2 instead of l < 2
b64Codec_decode_ShortFormUpTo2(data) == b64Codec_decode_Variant(data, 3, BINARY, FALSE)

b64Codec_decode(data) ==
    LET l == Len(data)
    IN  IF l < 1 THEN [pkt |-> NilPacket, err |-> ErrEmptyInput]
        ELSE IF l < 2 THEN
            LET r == convertCharToType(data[1])
            IN  IF r.err # ErrNil THEN [pkt |-> NilPacket, err |-> r.err]
                ELSE [pkt |-> NewPacketCustom(r.t, <<>>, BINARY), err |-> ErrNil]
        ELSE IF data[1] # ChB THEN [pkt |-> NilPacket, err |-> ErrInvalidFraming]
        ELSE
            LET r == convertCharToType(data[2])
            IN  IF r.err # ErrNil THEN [pkt |-> NilPacket, err |-> r.err]
                ELSE LET body == StdDecodeString(Tail2(data))
                     IN  IF body.err # ErrNil THEN [pkt |-> NilPacket, err |-> body.err]
                         ELSE [pkt |-> NewPacketCustom(r.t, body.data, BINARY),
                               err |-> ErrNil]

\* b64Codec.writeTo without the short form
b64Codec_writeTo_AlwaysLongForm(writer, packet) ==
    LET t == convertTypeToChar(packet.Type)
    IN  IF t.err # ErrNil THEN [w |-> writer, err |-> t.err]
        ELSE
            LET r1 == Write(writer, << ChB >>)
            IN  IF r1.err # ErrNil THEN r1
                ELSE LET r2 == Write(r1.w, << t.c >>)
                     IN  IF r2.err # ErrNil THEN r2
                         ELSE Write(r2.w, StdEncodeToString(packet.Data))

b64Codec_writeTo(writer, packet) ==
    LET t == convertTypeToChar(packet.Type)
    IN  IF t.err # ErrNil THEN [w |-> writer, err |-> t.err]
        ELSE IF packet.DataNil \/ Len(packet.Data) < 1 THEN
            LET r1 == Write(writer, << t.c >>)
            IN  IF r1.err # ErrNil THEN r1 ELSE [w |-> r1.w, err |-> ErrNil]
        ELSE
            LET r1 == Write(writer, << ChB >>)
            IN  IF r1.err # ErrNil THEN r1
                ELSE LET r2 == Write(r1.w, << t.c >>)
                     IN  IF r2.err # ErrNil THEN r2
                         ELSE Write(r2.w, StdEncodeToString(packet.Data))

b64Codec_encode(packet) ==
    LET r == b64Codec_writeTo(NewBuffer, packet)
    IN  IF r.err # ErrNil THEN [NilBytes EXCEPT !.err = r.err]
        ELSE [err |-> ErrNil, out |-> r.w.bytes, outNil |-> FALSE]

(* ---------------------------------------------------------------------- *)
(* The packetCodec interface and its three instances                       *)
(* ---------------------------------------------------------------------- *)
binaryEncoder == "binary"
stringEncoder == "string"
base64Encoder == "base64"
Codecs == {binaryEncoder, stringEncoder, base64Encoder}

decode(c, data) ==
    CASE c = binaryEncoder -> binCodec_decode(data)
      [] c = stringEncoder -> strCodec_decode(data)
      [] c = base64Encoder -> b64Codec_decode(data)

encode(c, packet) ==
    CASE c = binaryEncoder -> binCodec_encode(packet)
      [] c = stringEncoder -> strCodec_encode(packet)
      [] c = base64Encoder -> b64Codec_encode(packet)

writeTo(c, writer, packet) ==
    CASE c = binaryEncoder -> binCodec_writeTo(writer, packet)
      [] c = stringEncoder -> strCodec_writeTo(writer, packet)
      [] c = base64Encoder -> b64Codec_writeTo(writer, packet)

(* ---------------------------------------------------------------------- *)
(* Inputs of the calls                                                     *)
(* ---------------------------------------------------------------------- *)
SeqsUpTo(S, n) == UNION { [1..k -> S] : k \in 0..n }

\* Packet types a caller may pass: the seven valid ones, the first invalid
\* one, an ASCII digit and the largest byte.
TypeInputs == ValidTypes \cup {7, 52, 255}
FlagInputs == {0, BINARY}
DataBytes == {0, 97, 255}

PacketInputs ==
    { [Type |-> t, Data |-> d, DataNil |-> FALSE, Flag |-> f] :
        t \in TypeInputs, d \in SeqsUpTo(DataBytes, MaxData), f \in FlagInputs }
    \cup
    { [Type |-> t, Data |-> <<>>, DataNil |-> TRUE, Flag |-> f] :
        t \in TypeInputs, f \in FlagInputs }

\* Received buffers: up to two leading bytes (raw types, digits, 'b' and
\* bytes that are none of these) followed by a body of base64 characters ('Q', '/'),
\* padding, a newline and a byte outside the alphabet.
HeadBytes == {0, 6, 7, 48, 52, 54, 55, ChB}
BodyBytes == {81, 47, ChPad, ChLF, 33}

BufferInputs ==
    SeqsUpTo(HeadBytes, 1)
    \cup { h \o b : h \in [1..2 -> HeadBytes], b \in SeqsUpTo(BodyBytes, MaxBody) }

SinkInputs ==
    { [fails |-> f, short |-> k, calls |-> <<>>, bytes |-> <<>>] :
        f \in SUBSET (1..MaxWrites), k \in 0..MaxShort }

(* ---------------------------------------------------------------------- *)
(* State: one call on one codec, and the call chained on its result        *)
(* ---------------------------------------------------------------------- *)
VARIABLES pc, codec, buf, pkt, dec, enc, sink, werr

vars == << pc, codec, buf, pkt, dec, enc, sink, werr >>

NoDecode == [pkt |-> NilPacket, err |-> ErrNil]

Init ==
    /\ pc = "idle"
    /\ codec \in Codecs
    /\ buf = <<>>
    /\ pkt = NilPacket
    /\ dec = NoDecode
    /\ enc = NilBytes
    /\ sink = NewBuffer
    /\ werr = ErrNil

\* codec.decode(w)
Decode ==
    /\ pc = "idle"
    /\ \E w \in BufferInputs :
         /\ buf' = w
         /\ dec' = decode(codec, w)
    /\ pc' = "decoded"
    /\ UNCHANGED << codec, pkt, enc, sink, werr >>

\* codec.encode(p)
Encode ==
    /\ pc = "idle"
    /\ \E p \in PacketInputs :
         /\ pkt' = p
         /\ enc' = encode(codec, p)
    /\ pc' = "encoded"
    /\ UNCHANGED << codec, buf, dec, sink, werr >>

\* codec.writeTo(s, p) on a sink s whose Write calls may fail
WriteTo ==
    /\ pc = "idle"
    /\ \E p \in PacketInputs, s \in SinkInputs :
         LET r == writeTo(codec, s, p)
         IN  /\ pkt' = p
             /\ sink' = r.w
             /\ werr' = r.err
    /\ pc' = "written"
    /\ UNCHANGED << codec, buf, dec, enc >>

\* codec.decode(codec.encode(p))
DecodeEncoded ==
    /\ pc = "encoded"
    /\ enc.err = ErrNil
    /\ buf' = enc.out
    /\ dec' = decode(codec, enc.out)
    /\ pc' = "roundtrip"
    /\ UNCHANGED << codec, pkt, enc, sink, werr >>

\* codec.encode(codec.decode(w))
EncodeDecoded ==
    /\ pc = "decoded"
    /\ dec.err = ErrNil
    /\ pkt' = dec.pkt
    /\ enc' = encode(codec, dec.pkt)
    /\ pc' = "reencoded"
    /\ UNCHANGED << codec, buf, dec, sink, werr >>

Next == Decode \/ Encode \/ WriteTo \/ DecodeEncoded \/ EncodeDecoded

Spec == Init /\ [][Next]_vars

(* ====================================================================== *)
(* Properties                                                              *)
(* ====================================================================== *)
\* The wire digit of each packet type, as the wire format table gives it.
Digit(t) ==
    CASE t = OPEN -> 48 [] t = CLOSE -> 49 [] t = PING -> 50 [] t = PONG -> 51
      [] t = MESSAGE -> 52 [] t = UPGRADE -> 53 [] t = NOOP -> 54

Digits == 48..54

\* The flag each codec's decoder sets.
CodecFlag(c) == IF c = stringEncoder THEN 0 ELSE BINARY

RECURSIVE Flatten(_)
Flatten(ss) == IF Len(ss) = 0 THEN <<>> ELSE Head(ss) \o Flatten(Tail(ss))

IsEmpty(p) == p.DataNil \/ Len(p.Data) = 0

\* C1 as stated: for every packet with a valid Type and each codec,
\* decode(encode(P)) succeeds and equals P in Type, Data and Flag, the Flag
\* being allowed to differ only for the base64 codec when Data is empty.
C1_RoundTripKeepsFlag ==
    /\ (pc = "encoded" /\ pkt.Type \in ValidTypes) => enc.err = ErrNil
    /\ (pc = "roundtrip" /\ pkt.Type \in ValidTypes) =>
          /\ dec.err = ErrNil
          /\ dec.pkt.Type = pkt.Type
          /\ dec.pkt.Data = pkt.Data
          /\ \/ dec.pkt.Flag = pkt.Flag
             \/ (codec = base64Encoder /\ IsEmpty(pkt))

\* C1 amended: for every packet with a valid Type and each codec,
\* decode(encode(P)) succeeds and equals P in Type and Data; the Flag returned
\* is the codec's own (BINARY for binary and base64, 0 for string) whatever
\* P.Flag was, so it equals P.Flag only when P.Flag is that value.
C1_RoundTrip ==
    /\ (pc = "encoded" /\ pkt.Type \in ValidTypes) => enc.err = ErrNil
    /\ (pc = "roundtrip" /\ pkt.Type \in ValidTypes) =>
          /\ dec.err = ErrNil
          /\ dec.pkt.Type = pkt.Type
          /\ dec.pkt.Data = pkt.Data
          /\ dec.pkt.Flag = CodecFlag(codec)
          /\ (dec.pkt.Flag = pkt.Flag) <=> (pkt.Flag = CodecFlag(codec))

C1_Witness ==
    /\ pc = "roundtrip"
    /\ codec = base64Encoder
    /\ pkt.Type = MESSAGE
    /\ Len(pkt.Data) = MaxData
    /\ pkt.Flag = 0
    /\ dec.pkt.Data = pkt.Data
    /\ dec.pkt.Flag = BINARY

\* C2: encode and writeTo of every codec reject a packet whose Type is not
\* one of the seven valid values with InvalidPacketType, and return no bytes.
C2_InvalidTypeRejected ==
    /\ (pc = "encoded" /\ pkt.Type \notin ValidTypes) =>
          (enc.err = ErrInvalidPacketType /\ enc.outNil)
    /\ (pc = "written" /\ pkt.Type \notin ValidTypes) =>
          (werr = ErrInvalidPacketType /\ sink.bytes = <<>>)

\* C3: every decode returns either an error and no packet, or no error and a
\* packet whose Type is one of the seven valid values.
C3_DecodeErrorOrValidPacket ==
    pc \in {"decoded", "roundtrip", "reencoded"} =>
        \/ (dec.err # ErrNil /\ dec.pkt = NilPacket)
        \/ (dec.err = ErrNil /\ dec.pkt # NilPacket /\ dec.pkt.Type \in ValidTypes)

C3_Witness ==
    /\ pc = "decoded"
    /\ codec = stringEncoder
    /\ Len(buf) > 1
    /\ buf[1] = 55
    /\ dec.err = ErrInvalidPacketType
    /\ dec.pkt = NilPacket

\* C4: base64 decode of a buffer of length >= 2 checks byte 0 ('b', else
\* InvalidFraming), then byte 1 (a digit '0'..'6', else InvalidPacketType),
\* then the body (padded standard base64, else InvalidPayloadEncoding), in
\* this order, and otherwise returns the decoded body and the digit's Type.
C4_Base64DecodeCheckOrder ==
    (pc = "decoded" /\ codec = base64Encoder /\ Len(buf) >= 2) =>
        LET body == StdDecodeString(Tail2(buf))
        IN  IF buf[1] # 98 THEN dec.err = ErrInvalidFraming
            ELSE IF buf[2] \notin Digits THEN dec.err = ErrInvalidPacketType
            ELSE IF body.err # ErrNil THEN dec.err = ErrInvalidPayloadEncoding
            ELSE /\ dec.err = ErrNil
                 /\ dec.pkt.Data = body.data
                 /\ Digit(dec.pkt.Type) = buf[2]

C4_Witness ==
    /\ pc = "decoded"
    /\ codec = base64Encoder
    /\ Len(buf) > 2
    /\ buf[1] # 98
    /\ buf[2] \notin Digits
    /\ StdDecodeString(Tail2(buf)).err # ErrNil
    /\ dec.err = ErrInvalidFraming

\* C5: base64 encode of a packet with a valid Type is the single digit byte
\* when Data is empty or absent, and 'b', the digit and the padded base64
\* text of Data otherwise: its length is 1 or 2 + 4*ceil(len(Data)/3), never 2.
C5_Base64EncodeForm ==
    (pc = "encoded" /\ codec = base64Encoder /\ pkt.Type \in ValidTypes) =>
        /\ enc.err = ErrNil
        /\ ~enc.outNil
        /\ IF IsEmpty(pkt)
           THEN enc.out = << Digit(pkt.Type) >>
           ELSE /\ enc.out = << 98, Digit(pkt.Type) >> \o StdEncodeToString(pkt.Data)
                /\ Len(enc.out) = 2 + 4 * ((Len(pkt.Data) + 2) \div 3)
                /\ \A i \in 3..Len(enc.out) : StdDecodeChar(enc.out[i]) # 255 \/ enc.out[i] = 61
        /\ Len(enc.out) # 2

C5_Witness ==
    /\ pc = "encoded"
    /\ codec = base64Encoder
    /\ pkt.Type = NOOP
    /\ Len(pkt.Data) = 2
    /\ Len(enc.out) = 6
    /\ enc.out[6] = 61

\* The Write calls a complete writeTo of a valid packet issues, in order.
WireWrites(c, p) ==
    CASE c = binaryEncoder ->
           IF IsEmpty(p) THEN << <<p.Type>> >> ELSE << <<p.Type>>, p.Data >>
      [] c = stringEncoder -> << <<Digit(p.Type)>>, p.Data >>
      [] c = base64Encoder ->
           IF IsEmpty(p) THEN << <<Digit(p.Type)>> >>
           ELSE << <<98>>, <<Digit(p.Type)>>, StdEncodeToString(p.Data) >>

\* C6: writeTo issues its writes in the codec's fixed order; the first Write
\* that fails is the last one issued, its error is what writeTo returns, and
\* the bytes of the earlier Writes (and what the failing Write accepted) stay
\* in the sink.
C6_WriteToStopsAtFirstFailure ==
    pc = "written" =>
        LET n == Len(sink.calls)
            failed == { i \in 1..n : i \in sink.fails }
        IN  /\ pkt.Type \in ValidTypes =>
                 /\ n <= Len(WireWrites(codec, pkt))
                 /\ sink.calls = SubSeq(WireWrites(codec, pkt), 1, n)
                 /\ (failed = {}) => (n = Len(WireWrites(codec, pkt)) /\ werr = ErrNil)
            /\ (failed # {}) => (failed = {n} /\ werr = ErrSinkWriteFailure)
            /\ sink.bytes =
                 IF failed = {} THEN Flatten(sink.calls)
                 ELSE Flatten(SubSeq(sink.calls, 1, n - 1))
                        \o SubSeq(sink.calls[n], 1, Min(sink.short, Len(sink.calls[n])))

C6_Witness ==
    /\ pc = "written"
    /\ codec = base64Encoder
    /\ sink.fails = {2, 3}
    /\ Len(sink.calls) = 2
    /\ sink.bytes = << 98 >>
    /\ werr = ErrSinkWriteFailure

\* C7: the binary codec uses the raw type value, not the digit table: decode
\* of a non-empty buffer succeeds exactly when byte 0 is in 0..6 (that byte
\* is the Type, the rest the Data) and fails with InvalidPacketType otherwise;
\* encode of a valid packet starts with the byte Type, which is not the byte
\* the string and base64 codecs emit for that Type.
C7_BinaryUsesRawType ==
    /\ (pc = "decoded" /\ codec = binaryEncoder /\ Len(buf) >= 1) =>
          IF buf[1] \in 0..6
          THEN /\ dec.err = ErrNil
               /\ dec.pkt.Type = buf[1]
               /\ dec.pkt.Data = Tail(buf)
          ELSE dec.err = ErrInvalidPacketType /\ dec.pkt = NilPacket
    /\ (pc = "encoded" /\ codec = binaryEncoder /\ pkt.Type \in ValidTypes) =>
          /\ enc.err = ErrNil
          /\ enc.out[1] = pkt.Type
          /\ enc.out[1] \in 0..6
          /\ enc.out[1] # strCodec_encode(pkt).out[1]
          /\ enc.out[1] # b64Codec_encode([pkt EXCEPT !.Data = <<>>]).out[1]
    /\ (pc = "encoded" /\ codec = stringEncoder /\ pkt.Type \in ValidTypes) =>
          enc.out[1] = Digit(pkt.Type)

C7_Witness ==
    /\ pc = "decoded"
    /\ codec = binaryEncoder
    /\ buf[1] = 48
    /\ dec.err = ErrInvalidPacketType

\* C8: the Flag of a decoded packet depends only on the codec: BINARY after
\* every successful binary decode, 0 after every successful string decode,
\* BINARY after every successful base64 decode, short form or long form.
C8_FlagSetByCodec ==
    (pc \in {"decoded", "roundtrip"} /\ dec.err = ErrNil) =>
        CASE codec = binaryEncoder -> dec.pkt.Flag = BINARY
          [] codec = stringEncoder -> dec.pkt.Flag = 0
          [] codec = base64Encoder -> dec.pkt.Flag = BINARY

C8_Witness ==
    /\ pc = "decoded"
    /\ codec = base64Encoder
    /\ Len(buf) = 1
    /\ dec.err = ErrNil
    /\ dec.pkt.Data = <<>>
    /\ dec.pkt.Flag = BINARY

\* C9: on a sink that accepts every write a successful writeTo issues 1
\* (empty Data) or 2 Write calls in the binary codec, always 2 in the string
\* codec (the second of zero bytes when Data is empty), 1 (empty Data) or 3
\* in the base64 codec; with empty Data the sink receives a single byte.
C9_WriteCallCounts ==
    (pc = "written" /\ sink.fails = {} /\ werr = ErrNil) =>
        /\ Len(sink.calls) =
              CASE codec = binaryEncoder -> IF IsEmpty(pkt) THEN 1 ELSE 2
                [] codec = stringEncoder -> 2
                [] codec = base64Encoder -> IF IsEmpty(pkt) THEN 1 ELSE 3
        /\ IsEmpty(pkt) => Len(sink.bytes) = 1
        /\ (codec = stringEncoder /\ IsEmpty(pkt)) => sink.calls[2] = <<>>

C9_Witness ==
    /\ pc = "written"
    /\ codec = stringEncoder
    /\ sink.fails = {}
    /\ werr = ErrNil
    /\ pkt.DataNil
    /\ Len(sink.calls) = 2
    /\ Len(sink.bytes) = 1

\* C10: for every digit d, base64 decode of ['b', d] succeeds with the same
\* packet (the Type of d, empty Data, Flag BINARY) as decode of [d], and
\* encoding that packet gives [d], not ['b', d]; for the binary and the
\* string codec encode(decode(w)) = w for every w that decodes.
C10_Base64DecodeNotInjective ==
    /\ (pc \in {"decoded", "reencoded"} /\ codec = base64Encoder
          /\ Len(buf) \in 1..2 /\ buf[Len(buf)] \in Digits
          /\ (Len(buf) = 2 => buf[1] = 98)) =>
          /\ dec.err = ErrNil
          /\ Digit(dec.pkt.Type) = buf[Len(buf)]
          /\ dec.pkt.Data = <<>>
          /\ dec.pkt.Flag = BINARY
          /\ pc = "reencoded" => (enc.err = ErrNil /\ enc.out = << buf[Len(buf)] >>)
    /\ (pc = "reencoded" /\ codec \in {binaryEncoder, stringEncoder}) =>
          (enc.err = ErrNil /\ enc.out = buf)

C10_Witness ==
    /\ pc = "reencoded"
    /\ codec = base64Encoder
    /\ buf = << 98, 54 >>
    /\ dec.pkt.Type = NOOP
    /\ enc.out = << 54 >>

====
